---- MODULE Spec2Model ----
(***************************************************************************)
(* A model of imagen3-mcp (src/main.rs): the supervisor `main`, the MCP    *)
(* tool `generate_image` with `generate_image_from_gemini`, the warp HTTP  *)
(* task (`/images/<name>` and `/list-images`), and the images directory    *)
(* they share.  Strings that the program composes are sequences of         *)
(* one-character strings, bytes are integers 0..255.                       *)
(***************************************************************************)
EXTENDS Integers, Sequences, FiniteSets, TLC

VARIABLES
    envKey,     \* GEMINI_API_KEY is set in the process environment
    dirs,       \* which of the two directories exist: [base, images]
    store,      \* the entries of the images directory: name -> [kind, content]
    now,        \* the local clock, in seconds, when it was last read
    mainPc,     \* where `main` is
    exitCode,   \* the process's exit status, -1 while it runs
    mcp,        \* the protocol server: Unbound, Bound, Serving, Closed
    quit,       \* how the serving loop ended: none, closed, error
    httpTask,   \* the spawned warp task
    inv,        \* the tool invocations, one record per invocation
    httpResp    \* the HTTP response the last step sent, if it sent one

vars == <<envKey, dirs, store, now, mainPc, exitCode, mcp, quit, httpTask, inv,
          httpResp>>

----------------------------------------------------------------------------
(* Bounds of the model *)

MaxInv == 2      \* tool invocations in one session
MaxTick == 1     \* seconds the clock may advance during the session
MaxLiveInv == 1  \* tool invocations in one session of LiveSpec

(* Constants of the program *)

NanoidSize == 10

Invocations == 1..MaxInv

----------------------------------------------------------------------------
(* Strings *)

Digits == <<"0", "1", "2", "3", "4", "5", "6", "7", "8", "9">>

\* chrono's "%Y%m%d%H%M%S" of the instant t seconds after 2025-01-01 00:00:00
BaseStamp == <<"2", "0", "2", "5", "0", "1", "0", "1", "0", "0", "0", "0">>

FormatTimestamp(t) ==
    BaseStamp \o <<Digits[((t \div 10) % 6) + 1], Digits[(t % 10) + 1]>>

\* the ids nanoid!(10) may draw here: ten symbols of its URL-safe alphabet
IdChars == {"a", "_"}

Ids == {[k \in 1..NanoidSize |-> c] : c \in IdChars}

\* a filename composed without the random id
FilenameNoId(id, timestamp) == timestamp \o <<".", "p", "n", "g">>

\* format!("{}_{}.png", id, timestamp)
Filename(id, timestamp) ==
    id \o <<"_">> \o timestamp \o <<".", "p", "n", "g">>

UrlPrefix == "http://127.0.0.1:9981/images/"

ErrPrefix == "Error generating image: "

\* format!("http://127.0.0.1:9981/images/{}", filename)
ImageUrl(filename) == <<UrlPrefix>> \o filename

\* format!("Error generating image: {}", e)
ErrorText(e) == <<ErrPrefix, e>>

----------------------------------------------------------------------------
(* base64::engine::general_purpose::STANDARD.decode *)

B64Alphabet ==
    <<"A", "B", "C", "D", "E", "F", "G", "H", "I", "J", "K", "L", "M",
      "N", "O", "P", "Q", "R", "S", "T", "U", "V", "W", "X", "Y", "Z",
      "a", "b", "c", "d", "e", "f", "g", "h", "i", "j", "k", "l", "m",
      "n", "o", "p", "q", "r", "s", "t", "u", "v", "w", "x", "y", "z",
      "0", "1", "2", "3", "4", "5", "6", "7", "8", "9", "+", "/">>

IsB64Char(c) == \E k \in 1..Len(B64Alphabet) : B64Alphabet[k] = c

B64Val(c) == (CHOOSE k \in 1..Len(B64Alphabet) : B64Alphabet[k] = c) - 1

\* the number of trailing '=' of s
PadCount(s) ==
    IF Len(s) >= 2 /\ s[Len(s)] = "=" /\ s[Len(s) - 1] = "=" THEN 2
    ELSE IF Len(s) >= 1 /\ s[Len(s)] = "=" THEN 1
    ELSE 0

\* the value of the symbol at position k, a padding position counting as 0
SymVal(s, k) == IF k > Len(s) - PadCount(s) THEN 0 ELSE B64Val(s[k])

\* the three bytes of the quantum that starts at position q
QuantumBytes(s, q) ==
    << SymVal(s, q) * 4 + SymVal(s, q + 1) \div 16,
       (SymVal(s, q + 1) % 16) * 16 + SymVal(s, q + 2) \div 4,
       (SymVal(s, q + 2) % 4) * 64 + SymVal(s, q + 3) >>

RECURSIVE AllQuanta(_, _)
AllQuanta(s, q) ==
    IF q > Len(s) THEN <<>> ELSE QuantumBytes(s, q) \o AllQuanta(s, q + 4)

\* padded input only, canonical padding, no trailing bits
B64WellFormed(s) ==
    /\ Len(s) % 4 = 0
    /\ \A k \in 1..(Len(s) - PadCount(s)) : IsB64Char(s[k])
    /\ PadCount(s) = 2 => SymVal(s, Len(s) - 2) % 16 = 0
    /\ PadCount(s) = 1 => SymVal(s, Len(s) - 1) % 4 = 0

Base64Decode(s) ==
    IF B64WellFormed(s)
    THEN [ok |-> TRUE,
          bytes |-> SubSeq(AllQuanta(s, 1), 1, 3 * (Len(s) \div 4) - PadCount(s))]
    ELSE [ok |-> FALSE, bytes |-> <<>>]

----------------------------------------------------------------------------
(* The generation backend's replies *)

PayloadAB == <<"Q", "U", "I", "=">>         \* two bytes, 65 66
PayloadBad == <<"Q", "!", "=", "=">>        \* not base64

Prediction(p) == [mimeType |-> "image/png", bytesBase64Encoded |-> p]

\* net: the POST was answered; json: the body is of the GeminiResponse schema
Replies ==
    { [net |-> FALSE, json |-> FALSE, predictions |-> <<>>],
      [net |-> TRUE, json |-> FALSE, predictions |-> <<>>],
      [net |-> TRUE, json |-> TRUE, predictions |-> <<>>],
      [net |-> TRUE, json |-> TRUE, predictions |-> <<Prediction(PayloadBad)>>],
      [net |-> TRUE, json |-> TRUE, predictions |-> <<Prediction(PayloadAB)>>] }

Ok(bytes) == [ok |-> TRUE, err |-> "", bytes |-> bytes]

Err(e) == [ok |-> FALSE, err |-> e, bytes |-> <<>>]

\* generate_image_from_gemini from the reply to the decoded image_data
DecodeReply(reply) ==
    IF ~reply.net THEN Err("error sending request")
    ELSE IF ~reply.json THEN Err("Failed to parse Gemini response")
    ELSE IF reply.predictions = <<>> THEN Err("No images were generated")
    ELSE LET d == Base64Decode(reply.predictions[1].bytesBase64Encoded)
         IN  IF d.ok THEN Ok(d.bytes) ELSE Err("Invalid base64")

----------------------------------------------------------------------------
(* The images directory *)

File(content) == [kind |-> "file", content |-> content]

Dir == [kind |-> "dir", content |-> <<>>]

EmptyStore == [n \in {} |-> Dir]

OldName == <<"o", "l", "d", ".", "p", "n", "g">>

SubName == <<"s", "u", "b">>

Max(a, b) == IF a > b THEN a ELSE b

\* write(2) of `bytes` at offset `off` of a file holding `content`
WriteAt(content, off, bytes) ==
    [k \in 1..Max(Len(content), off + Len(bytes)) |->
        IF k > off /\ k <= off + Len(bytes) THEN bytes[k - off]
        ELSE IF k <= Len(content) THEN content[k]
        ELSE 0]

\* a create that empties the directory first
CreateTruncateWipe(st, name) == (name :> File(<<>>))

\* File::create(path): O_CREAT | O_TRUNC under the file's final name
CreateTruncate(st, name) ==
    IF name \in DOMAIN st
    THEN [st EXCEPT ![name] = File(<<>>)]
    ELSE st @@ (name :> File(<<>>))

\* whether File::create(path) can succeed
CanCreate(d, st, name) ==
    /\ d.images
    /\ name \in DOMAIN st => st[name].kind = "file"

\* the directory after a write through an open descriptor of `name`
WriteThrough(st, name, off, bytes) ==
    IF name \in DOMAIN st /\ st[name].kind = "file"
    THEN [st EXCEPT ![name] = File(WriteAt(st[name].content, off, bytes))]
    ELSE st

RECURSIVE ListEntries(_, _)
ListEntries(st, left) ==
    IF left = {} THEN <<>>
    ELSE LET n == CHOOSE x \in left : TRUE
         IN  (IF st[n].kind = "file" THEN <<n>> ELSE <<>>)
                 \o ListEntries(st, left \ {n})

RECURSIVE ListAll(_)
ListAll(left) ==
    IF left = {} THEN <<>>
    ELSE LET n == CHOOSE x \in left : TRUE IN <<n>> \o ListAll(left \ {n})

\* a list_images without the is_file() filter
list_images_NoFilter(d, st) ==
    IF d.images
    THEN [ok |-> TRUE, names |-> ListAll(DOMAIN st)]
    ELSE [ok |-> FALSE, names |-> <<>>]

\* list_images: Err when read_dir fails, else the names that are files
list_images(d, st) ==
    IF d.images
    THEN [ok |-> TRUE, names |-> ListEntries(st, DOMAIN st)]
    ELSE [ok |-> FALSE, names |-> <<>>]

----------------------------------------------------------------------------
(* The initial states: the environment and what earlier runs left on disk *)

IdleInvocation ==
    [pc |-> "idle", id |-> <<>>, ts |-> 0, filename |-> <<>>, data |-> <<>>,
     off |-> 0, sent |-> FALSE, touched |-> FALSE, fs |-> "none", result |-> <<>>]

NoResponse == [route |-> "none", name |-> <<>>, status |-> 0,
               bytes |-> <<>>, names |-> <<>>]

InitialDisks ==
    { [dirs |-> [base |-> FALSE, images |-> FALSE], store |-> EmptyStore],
      [dirs |-> [base |-> TRUE, images |-> FALSE], store |-> EmptyStore],
      [dirs |-> [base |-> TRUE, images |-> TRUE], store |-> EmptyStore],
      [dirs |-> [base |-> TRUE, images |-> TRUE],
       store |-> (OldName :> File(<<1>>)) @@ (SubName :> Dir)] }

Init ==
    /\ envKey \in BOOLEAN
    /\ \E d \in InitialDisks : dirs = d.dirs /\ store = d.store
    /\ now = 0
    /\ mainPc = "ensure_dirs"
    /\ exitCode = -1
    /\ mcp = "Unbound"
    /\ quit = "none"
    /\ httpTask = "none"
    /\ inv = [i \in Invocations |-> IdleInvocation]
    /\ httpResp = NoResponse

Alive == mainPc # "exited"

\* no HTTP response is on its way.  The handlers of the warp task read the
\* directory and change nothing, so a step of another task commutes with
\* them: the model lets a response reach its client before the next step of
\* another task.  (A request that is read and not answered yet has status 0.)
Quiet == httpResp.status = 0

\* a process that ends and leaves its tasks as they are
ProcessExitLeavesTask(code, task) ==
    /\ mainPc' = "exited"
    /\ exitCode' = code
    /\ httpTask' = task
    /\ inv' = [i \in Invocations |-> IdleInvocation]

\* the process ends: the runtime and every task of it go with it
ProcessExit(code, task) ==
    /\ mainPc' = "exited"
    /\ exitCode' = code
    /\ httpTask' = IF task \in {"spawned", "listening"} THEN "dead" ELSE task
    /\ inv' = [i \in Invocations |-> IdleInvocation]

----------------------------------------------------------------------------
(* main *)

\* what ensure_resources_dir depends on besides the disk: whether the data
\* directory of the platform can be determined, and whether a create_dir_all
\* of the base directory and a create_dir of the images directory would succeed
EnsureEnvs == [resolved : BOOLEAN, mkBase : BOOLEAN, mkImages : BOOLEAN]

\* an ensure_resources_dir that creates without looking whether the
\* directory exists: create_dir fails on a directory that is there
ensure_resources_dir_NoLook(e, d) ==
    IF ~e.resolved THEN [ok |-> FALSE, dirs |-> d]
    ELSE IF ~e.mkBase THEN [ok |-> FALSE, dirs |-> d]
    ELSE IF d.images \/ ~e.mkImages
         THEN [ok |-> FALSE, dirs |-> [d EXCEPT !.base = TRUE]]
         ELSE [ok |-> TRUE, dirs |-> [base |-> TRUE, images |-> TRUE]]

\* ensure_resources_dir on a disk in state d, in the environment e
ensure_resources_dir_in(e, d) ==
    IF ~e.resolved THEN [ok |-> FALSE, dirs |-> d]
    ELSE IF ~d.base /\ ~e.mkBase THEN [ok |-> FALSE, dirs |-> d]
    ELSE IF ~d.images /\ ~e.mkImages
         THEN [ok |-> FALSE, dirs |-> [d EXCEPT !.base = TRUE]]
         ELSE [ok |-> TRUE, dirs |-> [base |-> TRUE, images |-> TRUE]]

\* ensure_resources_dir: the outcomes on a disk in state d.  It fails with the
\* disk as it is (no data directory, or the first create fails), or with the
\* base directory made and the images directory not, or it succeeds.
ensure_resources_dir(d) == {ensure_resources_dir_in(e, d) : e \in EnsureEnvs}

\* let resources_path = ensure_resources_dir().await?; let service = ...
MainEnsureDirs ==
    /\ Quiet
    /\ mainPc = "ensure_dirs"
    /\ \E o \in ensure_resources_dir(dirs) :
          /\ dirs' = o.dirs
          /\ IF o.ok
             THEN /\ mainPc' = "check_key"
                  /\ mcp' = "Bound"
                  /\ UNCHANGED <<exitCode, httpTask, inv>>
             ELSE /\ ProcessExit(1, httpTask)
                  /\ UNCHANGED mcp
    /\ UNCHANGED <<envKey, store, now, quit, httpResp>>

\* a main that never finds the key missing
KeyMissingNever(key) == FALSE

\* env::var("GEMINI_API_KEY").is_err()
KeyMissing(key) == ~key

\* if env::var("GEMINI_API_KEY").is_err() { ...; std::process::exit(1) }
MainCheckKey ==
    /\ Quiet
    /\ mainPc = "check_key"
    /\ IF KeyMissing(envKey)
       THEN ProcessExit(1, httpTask)
       ELSE mainPc' = "spawn_http" /\ UNCHANGED <<exitCode, httpTask, inv>>
    /\ UNCHANGED <<envKey, dirs, store, now, mcp, quit, httpResp>>

\* let http_handle = tokio::spawn(warp::serve(routes).run(([127,0,0,1], 9981)))
MainSpawnHttp ==
    /\ Quiet
    /\ mainPc = "spawn_http"
    /\ httpTask' = "spawned"
    /\ mainPc' = "serve_mcp"
    /\ UNCHANGED <<envKey, dirs, store, now, exitCode, mcp, quit, inv, httpResp>>

\* ServiceExt::serve(service, (stdin, stdout)).await?: the handshake succeeds
\* and the serving loop starts, or it fails and main returns the error
MainServeMcp ==
    /\ Quiet
    /\ mainPc = "serve_mcp"
    /\ \/ /\ mcp' = "Serving"
          /\ mainPc' = "waiting"
          /\ UNCHANGED <<exitCode, httpTask, quit, inv>>
       \/ /\ quit' = "init_failed"
          /\ ProcessExit(1, httpTask)
          /\ UNCHANGED mcp
    /\ UNCHANGED <<envKey, dirs, store, now, httpResp>>

\* what main does once mcp_future.await? has a value: on Ok it goes on to
\* http_handle.abort(), on Err it returns the error
AfterWaiting(q) == IF q = "closed" THEN "abort_http" ELSE "return_err"

\* mcp_future.await?: the serving loop ends, because the transport was closed
\* or because the loop's task failed, and main resumes with its result
MainWaitingDone ==
    /\ Quiet
    /\ mainPc = "waiting"
    /\ mcp = "Serving"
    /\ mcp' = "Closed"
    /\ \E q \in {"closed", "error"} :
          /\ quit' = q
          /\ IF AfterWaiting(q) = "return_err"
             THEN ProcessExit(1, httpTask)
             ELSE mainPc' = AfterWaiting(q) /\ UNCHANGED <<exitCode, httpTask, inv>>
    /\ UNCHANGED <<envKey, dirs, store, now, httpResp>>

\* a main that forgets to cancel the task
AbortForgotten(task) == task

\* JoinHandle::abort: cancels a task that has not finished
Abort(task) == IF task \in {"spawned", "listening"} THEN "aborted" ELSE task

\* http_handle.abort(); Ok(())
MainAbortHttp ==
    /\ Quiet
    /\ mainPc = "abort_http"
    /\ ProcessExit(0, Abort(httpTask))
    /\ UNCHANGED <<envKey, dirs, store, now, mcp, quit, httpResp>>

MainStep ==
    \/ MainEnsureDirs
    \/ MainCheckKey
    \/ MainSpawnHttp
    \/ MainServeMcp
    \/ MainWaitingDone
    \/ MainAbortHttp

----------------------------------------------------------------------------
(* The warp task *)

\* run() binds 127.0.0.1:9981 when the task is first polled, and panics in
\* the task when the bind fails
HttpBind ==
    /\ Quiet
    /\ Alive
    /\ httpTask = "spawned"
    /\ httpTask' \in {"listening", "panicked"}
    /\ UNCHANGED <<envKey, dirs, store, now, mainPc, exitCode, mcp, quit, inv, httpResp>>

\* a route that answers 200 for whatever entry has the name
images_route_AnyEntry(d, st, name) ==
    IF d.images /\ name \in DOMAIN st
    THEN [route |-> "images", name |-> name, status |-> 200,
          bytes |-> st[name].content, names |-> <<>>]
    ELSE [route |-> "images", name |-> name, status |-> 404,
          bytes |-> <<>>, names |-> <<>>]

\* warp::path("images").and(warp::fs::dir(images_path))
images_route(d, st, name) ==
    IF d.images /\ name \in DOMAIN st /\ st[name].kind = "file"
    THEN [route |-> "images", name |-> name, status |-> 200,
          bytes |-> st[name].content, names |-> <<>>]
    ELSE [route |-> "images", name |-> name, status |-> 404,
          bytes |-> <<>>, names |-> <<>>]

\* warp::path("list-images").and_then(...): Ok -> json, Err -> not_found
list_images_route(d, st) ==
    LET r == list_images(d, st)
    IN  IF r.ok
        THEN [route |-> "list-images", name |-> <<>>, status |-> 200,
              bytes |-> <<>>, names |-> r.names]
        ELSE [route |-> "list-images", name |-> <<>>, status |-> 404,
              bytes |-> <<>>, names |-> <<>>]

\* a handler that unwraps the store's error and takes the task down with it
TaskPanicsOnError(task, resp) == IF resp.status = 404 THEN "panicked" ELSE task

\* the task after it has answered a request with `resp`
TaskAfterRequest(task, resp) == task

\* the names a client asks for: what is in the directory, and OldName
RequestNames == DOMAIN store \cup {OldName}

\* a route that makes an empty file of a name it does not find
HttpGetImageCreates ==
    /\ Quiet
    /\ Alive
    /\ httpTask = "listening"
    /\ \E n \in RequestNames :
          /\ httpResp' = images_route(dirs, store, n)
          /\ store' = IF httpResp'.status = 404 /\ CanCreate(dirs, store, n)
                      THEN CreateTruncate(store, n)
                      ELSE store
    /\ UNCHANGED <<envKey, dirs, now, mainPc, exitCode, mcp, quit, httpTask, inv>>

\* GET /images/<name>
HttpGetImage ==
    /\ Quiet
    /\ Alive
    /\ httpTask = "listening"
    /\ \E n \in RequestNames :
          /\ httpResp' = images_route(dirs, store, n)
          /\ httpTask' = TaskAfterRequest(httpTask, httpResp')
    /\ UNCHANGED <<envKey, dirs, store, now, mainPc, exitCode, mcp, quit, inv>>

\* GET /list-images
HttpListImages ==
    /\ Quiet
    /\ Alive
    /\ httpTask = "listening"
    /\ httpResp' = list_images_route(dirs, store)
    /\ httpTask' = TaskAfterRequest(httpTask, httpResp')
    /\ UNCHANGED <<envKey, dirs, store, now, mainPc, exitCode, mcp, quit, inv>>

\* the response has been written to the client's connection
HttpSent ==
    /\ ~Quiet
    /\ httpResp' = NoResponse
    /\ UNCHANGED <<envKey, dirs, store, now, mainPc, exitCode, mcp, quit, httpTask, inv>>

\* a request that the warp task has read from a connection
Request(route, name) ==
    [route |-> route, name |-> name, status |-> 0, bytes |-> <<>>, names |-> <<>>]

\* a request is read and not answered yet
Requested == httpResp.route # "none" /\ httpResp.status = 0

\* the warp task reads a request from a connection
HttpReceive ==
    /\ httpResp = NoResponse
    /\ Alive
    /\ httpTask = "listening"
    /\ httpResp' \in {Request("images", n) : n \in RequestNames}
                        \cup {Request("list-images", <<>>)}
    /\ UNCHANGED <<envKey, dirs, store, now, mainPc, exitCode, mcp, quit, httpTask, inv>>

\* a warp task that shares its thread with the calls of the tool and has to
\* wait for a call that awaits the backend
HandlerWaitsForBackend(calls) == \A i \in DOMAIN calls : calls[i].pc # "await"

\* whether the warp task can run a handler: it was spawned as a task of its
\* own and shares no state with the calls of the tool, whatever they await
HandlerReady(calls) == TRUE

\* the handler of the request runs, on the directory as it is then
HttpAnswer ==
    /\ Requested
    /\ Alive
    /\ httpTask = "listening"
    /\ HandlerReady(inv)
    /\ httpResp' = IF httpResp.route = "images"
                   THEN images_route(dirs, store, httpResp.name)
                   ELSE list_images_route(dirs, store)
    /\ httpTask' = TaskAfterRequest(httpTask, httpResp')
    /\ UNCHANGED <<envKey, dirs, store, now, mainPc, exitCode, mcp, quit, inv>>

----------------------------------------------------------------------------
(* The tool generate_image *)

\* a generate_image that puts the path under the data directory into the URL
generate_image_Path(r, filename) ==
    IF r.ok
    THEN ImageUrl(<<"i", "m", "a", "g", "e", "s", "/">> \o filename)
    ELSE ErrorText(r.err)

\* generate_image: Ok(filename) -> the URL, Err(e) -> the error text
generate_image(r, filename) ==
    IF r.ok THEN ImageUrl(filename) ELSE ErrorText(r.err)

\* a tool whose error makes the serving loop start over
SessionRestartsOnError(session, r) == IF r.ok THEN session ELSE "Bound"

\* a tool that hands its error to the serving loop, which ends on it
SessionEndsOnError(session, r) == IF r.ok THEN session ELSE "Closed"

\* the session after a call of the tool returned r: generate_image returns a
\* String on both arms, so the serving loop goes on as it was
SessionAfterCall(session, r) == session

\* the record of a call that returned r: on Err only the text is left
Returned(rec, r) ==
    IF r.ok
    THEN [rec EXCEPT !.pc = "done", !.result = generate_image(r, rec.filename)]
    ELSE [rec EXCEPT !.pc = "done", !.result = generate_image(r, rec.filename),
                     !.id = <<>>, !.ts = 0, !.filename = <<>>, !.data = <<>>,
                     !.off = 0]

\* invocation i returns r to the serving loop
Finish(i, rec, r) ==
    /\ inv' = [inv EXCEPT ![i] = Returned(rec, r)]
    /\ mcp' = SessionAfterCall(mcp, r)

\* a generate_image_from_gemini that takes the key for granted
ApiKeyAssumed(key) == Ok(<<>>)

\* env::var("GEMINI_API_KEY") inside generate_image_from_gemini
ApiKey(key) ==
    IF key THEN Ok(<<>>) ELSE Err("GEMINI_API_KEY environment variable not set")

\* the serving loop dispatches a call: the filename is composed, the key is
\* read, and the POST is sent
ToolCall(i) ==
    /\ Quiet
    /\ Alive
    /\ mcp = "Serving"
    /\ inv[i].pc = "idle"
    /\ i > 1 => inv[i - 1].pc # "idle"
    /\ \E id \in Ids, t \in now..MaxTick :
          LET rec == [inv[i] EXCEPT !.id = id, !.ts = t,
                                    !.filename = Filename(id, FormatTimestamp(t))]
          IN  /\ now' = t
              /\ IF ApiKey(envKey).ok
                 THEN /\ inv' = [inv EXCEPT ![i] = [rec EXCEPT !.pc = "await",
                                                               !.sent = TRUE]]
                      /\ UNCHANGED mcp
                 ELSE Finish(i, rec, ApiKey(envKey))
    /\ UNCHANGED <<envKey, dirs, store, mainPc, exitCode, quit, httpTask, httpResp>>

\* the POST completes; the body is parsed and the first prediction decoded
BackendReply(i) ==
    /\ Quiet
    /\ Alive
    /\ inv[i].pc = "await"
    /\ \E reply \in Replies :
          LET d == DecodeReply(reply)
          IN  IF d.ok
              THEN /\ inv' = [inv EXCEPT ![i] = [@ EXCEPT !.pc = "create",
                                                          !.data = d.bytes]]
                   /\ UNCHANGED mcp
              ELSE Finish(i, inv[i], d)
    /\ UNCHANGED <<envKey, dirs, store, now, mainPc, exitCode, quit, httpTask, httpResp>>

\* fs::write, first half: File::create(path) makes or truncates the file
FsCreate(i) ==
    /\ Quiet
    /\ Alive
    /\ inv[i].pc = "create"
    /\ \/ /\ CanCreate(dirs, store, inv[i].filename)
          /\ store' = CreateTruncate(store, inv[i].filename)
          /\ LET rec == [inv[i] EXCEPT !.touched = TRUE]
             IN  IF rec.data = <<>>
                 THEN Finish(i, [rec EXCEPT !.fs = "ok"], Ok(<<>>))
                 ELSE /\ inv' = [inv EXCEPT ![i] = [rec EXCEPT !.pc = "write"]]
                      /\ UNCHANGED mcp
       \/ /\ Finish(i, [inv[i] EXCEPT !.fs = "err"], Err("io error"))
          /\ UNCHANGED store
    /\ UNCHANGED <<envKey, dirs, now, mainPc, exitCode, quit, httpTask, httpResp>>

\* fs::write, second half: write_all writes the bytes in one or more writes,
\* any of which may fail
FsWrite(i) ==
    /\ Quiet
    /\ Alive
    /\ inv[i].pc = "write"
    /\ \/ \E k \in 1..(Len(inv[i].data) - inv[i].off) :
             LET rec == [inv[i] EXCEPT !.off = @ + k]
                 chunk == SubSeq(inv[i].data, inv[i].off + 1, inv[i].off + k)
             IN  /\ store' = WriteThrough(store, rec.filename, inv[i].off, chunk)
                 /\ IF rec.off = Len(rec.data)
                    THEN Finish(i, [rec EXCEPT !.fs = "ok"], Ok(rec.data))
                    ELSE inv' = [inv EXCEPT ![i] = rec] /\ UNCHANGED mcp
       \/ /\ Finish(i, [inv[i] EXCEPT !.fs = "err"], Err("io error"))
          /\ UNCHANGED store
    /\ UNCHANGED <<envKey, dirs, now, mainPc, exitCode, quit, httpTask, httpResp>>

----------------------------------------------------------------------------
(* The specifications *)

Next ==
    \/ MainStep
    \/ HttpBind
    \/ HttpGetImage
    \/ HttpListImages
    \/ HttpSent
    \/ \E i \in Invocations : ToolCall(i)
    \/ \E i \in Invocations : BackendReply(i)
    \/ \E i \in Invocations : FsCreate(i)
    \/ \E i \in Invocations : FsWrite(i)

Spec == Init /\ [][Next]_vars

\* the environment removes the images directory while the process runs
RemoveImagesDir ==
    /\ Quiet
    /\ Alive
    /\ mainPc # "ensure_dirs"
    /\ dirs.images
    /\ dirs' = [dirs EXCEPT !.images = FALSE]
    /\ store' = EmptyStore
    /\ UNCHANGED <<envKey, now, mainPc, exitCode, mcp, quit, httpTask, inv, httpResp>>

NextEnv == Next \/ RemoveImagesDir

EnvSpec == Init /\ [][NextEnv]_vars

\* the warp task with a request's arrival and its answer as two steps, so
\* that the other tasks take steps in between.  The runtime polls a task
\* that is ready, so a handler that can run does run; nothing makes the
\* backend reply, the host call, or the host close the transport.  The host
\* sends at most MaxLiveInv calls.
LiveNext ==
    \/ MainStep
    \/ HttpBind
    \/ HttpReceive
    \/ HttpAnswer
    \/ HttpSent
    \/ \E i \in 1..MaxLiveInv : ToolCall(i)
    \/ \E i \in 1..MaxLiveInv : BackendReply(i)
    \/ \E i \in 1..MaxLiveInv : FsCreate(i)
    \/ \E i \in 1..MaxLiveInv : FsWrite(i)

LiveSpec == Init /\ [][LiveNext]_vars /\ WF_vars(HttpAnswer)

\* generate_image called on a service of its own, as a test calls it: the
\* directories are there, and the key is set or not (in the running program
\* main's check of the key comes first)
ToolInit ==
    /\ envKey \in BOOLEAN
    /\ dirs = [base |-> TRUE, images |-> TRUE]
    /\ store \in {d.store : d \in InitialDisks}
    /\ now = 0
    /\ mainPc = "waiting"
    /\ exitCode = -1
    /\ mcp = "Serving"
    /\ quit = "none"
    /\ httpTask = "none"
    /\ inv = [i \in Invocations |-> IdleInvocation]
    /\ httpResp = NoResponse

ToolNext ==
    \/ \E i \in Invocations : ToolCall(i)
    \/ \E i \in Invocations : BackendReply(i)
    \/ \E i \in Invocations : FsCreate(i)
    \/ \E i \in Invocations : FsWrite(i)

ToolSpec == ToolInit /\ [][ToolNext]_vars

----------------------------------------------------------------------------
(* The claims *)

IsUrl(text) == Len(text) >= 1 /\ text[1] = UrlPrefix

IsError(text) == Len(text) = 2 /\ text[1] = ErrPrefix

Range(seq) == {seq[k] : k \in 1..Len(seq)}

HttpRunning == httpTask \in {"spawned", "listening"}

\* C1: with GEMINI_API_KEY absent the warp task is never spawned, let alone
\* bound, the protocol server never serves, main never gets past the check
\* of the key, and the process exits with a status that is not 0.
C1_NoKeyNoServers ==
    ~envKey =>
        /\ httpTask = "none"
        /\ mcp \in {"Unbound", "Bound"}
        /\ mainPc \in {"ensure_dirs", "check_key", "exited"}
        /\ mainPc = "exited" => exitCode # 0

\* the process has exited at the check of the key
C1_Witness ==
    /\ ~envKey
    /\ mainPc = "exited"
    /\ mcp = "Bound"
    /\ dirs.images
    /\ exitCode = 1

\* C2: once the serving loop has ended because the transport was closed,
\* main is at http_handle.abort() and nothing keeps it from going on (at most
\* a response on its way is delivered first); when the process has exited it
\* has exited with status 0 and the warp task was cancelled (or had ended by
\* itself); in no exited state is the warp task running.
C2_CleanShutdown ==
    /\ mainPc = "exited" => ~HttpRunning
    /\ quit = "closed" =>
          /\ mainPc \in {"abort_http", "exited"}
          /\ mainPc = "abort_http" => (ENABLED MainAbortHttp \/ ENABLED HttpSent)
          /\ mainPc = "exited" =>
                exitCode = 0 /\ httpTask \in {"aborted", "panicked"}

\* the process has exited after the transport was closed, the listening warp
\* task cancelled
C2_Witness ==
    /\ quit = "closed"
    /\ mainPc = "exited"
    /\ exitCode = 0
    /\ httpTask = "aborted"

\* some invocation has created the file n and has not written all of it yet
PartiallyWritten(n) ==
    \E i \in Invocations : inv[i].pc = "write" /\ inv[i].filename = n

\* C3: no HTTP response serves, or lists, a file that is only partially
\* written.
C3_NoPartialRead ==
    /\ (httpResp.route = "images" /\ httpResp.status = 200)
          => ~PartiallyWritten(httpResp.name)
    /\ httpResp.route = "list-images"
          => \A n \in Range(httpResp.names) : ~PartiallyWritten(n)

\* C4: a call that returned a URL has written its file, and a call that
\* returned an error has neither created nor changed a file.
C4_NoFileOnFailure ==
    \A i \in Invocations :
        inv[i].pc = "done" =>
            /\ IsUrl(inv[i].result) => (inv[i].touched /\ inv[i].fs = "ok")
            /\ IsError(inv[i].result) => ~inv[i].touched

\* C5: every call of the tool returns a text, the URL or the error text, and
\* the step that returns it leaves the protocol server as it was: a failed
\* call does not end the session.
C5_FailureKeepsSession ==
    [][\A i \in Invocations :
          (inv[i].pc # "done" /\ inv'[i].pc = "done") =>
              /\ IsUrl(inv'[i].result) \/ IsError(inv'[i].result)
              /\ mcp' = mcp]_vars

\* a call has failed, a later call was accepted, and the session is serving
C5_Witness ==
    /\ mcp = "Serving"
    /\ inv[1].pc = "done"
    /\ IsError(inv[1].result)
    /\ inv[2].pc = "await"

\* C6 as claimed: a call whose reply held one well-formed prediction returns
\* the URL of its file, and every later listing holds the file's name.
C6_UrlOnWellFormed ==
    \A i \in Invocations :
        (inv[i].pc = "done" /\ inv[i].fs # "none") =>
            /\ inv[i].result = ImageUrl(inv[i].filename)
            /\ httpResp.route = "list-images"
                  => inv[i].filename \in Range(httpResp.names)

\* C6, amended: a call whose reply held one well-formed prediction and whose
\* write succeeded returns the URL of the file it wrote, the file is in the
\* directory, and every later listing answers 200 and holds its name.
C6_UrlOnWrittenFile ==
    \A i \in Invocations :
        (inv[i].pc = "done" /\ inv[i].fs = "ok") =>
            /\ inv[i].result = ImageUrl(inv[i].filename)
            /\ inv[i].filename \in DOMAIN store
            /\ store[inv[i].filename].kind = "file"
            /\ httpResp.route = "list-images" =>
                  /\ httpResp.status = 200
                  /\ inv[i].filename \in Range(httpResp.names)

\* a listing sent after a call returned its URL
C6_Witness ==
    \E i \in Invocations :
        /\ inv[i].pc = "done"
        /\ IsUrl(inv[i].result)
        /\ httpResp.route = "list-images"
        /\ inv[i].filename \in Range(httpResp.names)

\* the invocations that hold a composed filename
Composed == {i \in Invocations : inv[i].filename # <<>>}

\* C7 as claimed: the filenames of two invocations differ.
C7_Distinct ==
    \A i, j \in Composed : i # j => inv[i].filename # inv[j].filename

\* C7, amended: the filenames of two invocations are the same exactly when
\* both drew the same random id and read the same second of the clock.
C7_DistinctUnlessSameDraw ==
    \A i, j \in Composed :
        i # j =>
            (inv[i].filename = inv[j].filename
                <=> (inv[i].id = inv[j].id /\ inv[i].ts = inv[j].ts))

\* two invocations within the same second, told apart by their ids
C7_Witness ==
    \E i, j \in Composed :
        /\ inv[i].ts = inv[j].ts
        /\ inv[i].id # inv[j].id
        /\ inv[i].filename # inv[j].filename

\* C8 as claimed: a file that is in the directory and is not in the middle of
\* being written stays there with the same content.
C8_Immutable ==
    [][\A n \in DOMAIN store :
          ~PartiallyWritten(n) => (n \in DOMAIN store' /\ store'[n] = store[n])]_vars

\* C8, amended: no file is removed, and a file's content is changed only by
\* the write of an invocation that composed that file's name.
C8_ChangedOnlyByItsName ==
    [][\A n \in DOMAIN store :
          /\ n \in DOMAIN store'
          /\ \/ store'[n] = store[n]
             \/ \E i \in Invocations :
                   /\ inv[i].pc \in {"create", "write"}
                   /\ inv[i].filename = n
                   /\ inv'[i] # inv[i]]_vars

\* two calls have written two files, and both hold what was written
C8_Witness ==
    /\ inv[1].pc = "done" /\ inv[1].fs = "ok"
    /\ inv[2].pc = "done" /\ inv[2].fs = "ok"
    /\ inv[1].filename # inv[2].filename
    /\ store[inv[1].filename].content = inv[1].data
    /\ store[inv[2].filename].content = inv[2].data

\* the names of the regular files in the directory
FileNames == {n \in DOMAIN store : store[n].kind = "file"}

C10_StoreErrorIs404 ==
    [][(httpResp = NoResponse /\ httpResp' # NoResponse) =>
          /\ ~dirs.images => httpResp'.status = 404
          /\ httpTask' = "listening"
          /\ mcp' = mcp
          /\ inv' = inv
          /\ mainPc' = mainPc]_vars

\* a listing was answered 404 on the removed directory, the servers running
C10_Witness ==
    /\ ~dirs.images
    /\ httpResp.route = "list-images"
    /\ httpResp.status = 404
    /\ httpTask = "listening"
    /\ mcp = "Serving"

\* the calls that returned the URL of the file n, no other call having
\* created or written a file of that name
WroteAlone(n) ==
    {i \in Invocations :
        /\ inv[i].pc = "done" /\ inv[i].fs = "ok" /\ inv[i].filename = n
        /\ \A j \in Invocations \ {i} :
              inv[j].touched => (inv[j].filename # <<>> /\ inv[j].filename # n)}

\* C11: GET /images/<name> is answered 200 exactly when <name> is a regular
\* file of the images directory, and then with the bytes the file holds, which
\* are the bytes the call that wrote the file decoded and wrote; it is
\* answered 404, with no bytes, when there is no such file.
C11_GetServesTheFile ==
    httpResp.route = "images" =>
        /\ httpResp.status \in {200, 404}
        /\ httpResp.status = 200 <=> httpResp.name \in FileNames
        /\ httpResp.status = 200 =>
              /\ httpResp.bytes = store[httpResp.name].content
              /\ \A i \in WroteAlone(httpResp.name) :
                    httpResp.bytes = inv[i].data
        /\ httpResp.status = 404 => httpResp.bytes = <<>>

\* the file of a call that returned its URL is served with the bytes written
C11_Witness ==
    /\ httpResp.route = "images"
    /\ httpResp.status = 200
    /\ WroteAlone(httpResp.name) # {}
    /\ httpResp.bytes = <<65, 66>>

\* C12: the protocol server is Serving only if ensure_resources_dir succeeded
\* (both directories exist), the key is present, and the warp task has bound
\* 127.0.0.1:9981 and listens; a warp task whose bind failed never goes
\* together with a protocol server that serves.
C12_ServingOnlyAfterStartup ==
    /\ mcp = "Serving" =>
          /\ dirs.base /\ dirs.images
          /\ envKey
          /\ httpTask = "listening"
    /\ httpTask = "panicked" => mcp # "Serving"

\* C13: while the protocol server is Serving the warp task that main spawned
\* is running, and the warp task has stopped (panicked, cancelled, or gone
\* with the process) only in states where the protocol server is Closed.
C13_HttpOutlivesServing ==
    /\ mcp = "Serving" => HttpRunning
    /\ httpTask \in {"panicked", "aborted", "dead"} => mcp = "Closed"

\* the steps the protocol server may take
McpSteps ==
    {<<"Unbound", "Bound">>, <<"Bound", "Serving">>, <<"Serving", "Closed">>}

\* C14: the protocol server only steps Unbound -> Bound -> Serving -> Closed,
\* one state at a time and never back; nothing leaves Closed; Closed is
\* entered only when the serving loop ended on end-of-stream or on a fatal
\* transport error; and the one session starts with no call in progress,
\* so the process has one session in its lifetime.
C14_McpStateMachine ==
    [][/\ mcp' # mcp => <<mcp, mcp'>> \in McpSteps
       /\ mcp = "Closed" => mcp' = "Closed"
       /\ (mcp # "Closed" /\ mcp' = "Closed") =>
             (quit = "none" /\ quit' \in {"closed", "error"})
       /\ (mcp # "Serving" /\ mcp' = "Serving") =>
             (quit = "none" /\ \A i \in Invocations : inv[i].pc = "idle")]_vars

\* the session served a call and was then closed by the host
C14_Witness ==
    /\ mcp = "Closed"
    /\ quit = "closed"
    /\ mainPc = "abort_http"
    /\ inv[1].pc = "done"

\* a call of the tool awaits the backend's reply
BackendPending == \E i \in Invocations : inv[i].pc = "await"

\* C15 as claimed: a request that the warp task has read while a call awaits
\* the backend is eventually answered.
C15_Answered ==
    (Requested /\ BackendPending) ~> (httpResp.status # 0)

\* C15, amended: a request that the warp task has read while a call awaits
\* the backend is eventually answered, whether or not the backend ever
\* replies, unless the process ends first.
C15_AnsweredUnlessExit ==
    (Requested /\ BackendPending) ~> (httpResp.status # 0 \/ ~Alive)

\* a request was answered while a call was awaiting the backend
C15_Witness ==
    /\ httpResp.status = 200
    /\ inv[1].pc = "await"
    /\ Alive

\* the files that the session added to the directory
AddedFiles == FileNames \ {OldName}

\* the calls that returned a URL
ReturnedUrl == {i \in Invocations : inv[i].pc = "done" /\ IsUrl(inv[i].result)}

\* C16: once the calls of the session, dispatched concurrently, have all
\* returned, the directory holds as many added files as calls returned a
\* URL, and the URL of each such call names a file that holds the bytes
\* decoded from that call's reply.
C16_OneFilePerUrl ==
    (\A i \in Invocations : inv[i].pc = "done") =>
        /\ Cardinality(AddedFiles) = Cardinality(ReturnedUrl)
        /\ \A i \in ReturnedUrl :
              /\ inv[i].result = ImageUrl(inv[i].filename)
              /\ inv[i].filename \in FileNames
              /\ store[inv[i].filename].content = inv[i].data

\* C17: when ServiceExt::serve failed to establish the session, or the
\* serving loop ended on a fatal transport error, the process has exited,
\* with a status that is not 0, and the warp task is not running: it never
\* bound, or it went with the process.
C17_ErrorEndsProcess ==
    quit \in {"init_failed", "error"} =>
        /\ mainPc = "exited"
        /\ exitCode # 0
        /\ ~HttpRunning
        /\ httpTask \in {"dead", "panicked"}
        /\ quit = "init_failed" => mcp = "Bound"
        /\ quit = "error" => mcp = "Closed"

\* the serving loop failed while the warp task was listening
C17_Witness ==
    /\ quit = "error"
    /\ mainPc = "exited"
    /\ exitCode = 1
    /\ httpTask = "dead"
    /\ FileNames # {}

\* one of the servers has been set up or has read or written the directory
StoreInUse ==
    \/ mcp # "Unbound"
    \/ httpTask # "none"
    \/ httpResp # NoResponse
    \/ \E i \in Invocations : inv[i].pc # "idle"

KeyNotSet == "GEMINI_API_KEY environment variable not set"

\* C19: a call sends its request to the backend only after it has found the
\* key: with the key absent, a call that was made has returned the error
\* text of the missing key, has sent nothing to the backend and has not
\* touched the directory.
C19_KeyBeforeRequest ==
    \A i \in Invocations :
        /\ inv[i].sent => envKey
        /\ (~envKey /\ inv[i].pc # "idle") =>
              /\ inv[i].pc = "done"
              /\ inv[i].result = ErrorText(KeyNotSet)
              /\ ~inv[i].sent
              /\ ~inv[i].touched

\* two calls were made without the key
C19_Witness ==
    /\ ~envKey
    /\ \A i \in Invocations :
          inv[i].pc = "done" /\ inv[i].result = ErrorText(KeyNotSet) /\ ~inv[i].sent

\* C20: a step in which the warp task answers a request, GET /images/<name>
\* or GET /list-images, with 200 or with 404, leaves the two directories,
\* the entries of the images directory and what the files hold as they were.
C20_HttpReadOnly ==
    [][(httpResp' # httpResp /\ httpResp'.status # 0) =>
          /\ httpResp'.status \in {200, 404}
          /\ store' = store
          /\ dirs' = dirs]_vars

\* a request for a name that is not there was answered 404 on a directory
\* that holds a file a call wrote
C20_Witness ==
    /\ httpResp.route = "images"
    /\ httpResp.status = 404
    /\ httpResp.name \notin DOMAIN store
    /\ \E i \in Invocations :
          inv[i].fs = "ok" /\ store[inv[i].filename] = File(inv[i].data)

\* C21: in every state in which a call has returned a URL, the warp task
\* that main spawned has bound 127.0.0.1:9981 and listens, and its route
\* answers a GET of that URL's name with 200.
C21_UrlServable ==
    \A i \in ReturnedUrl :
        /\ httpTask = "listening"
        /\ images_route(dirs, store, inv[i].filename).status = 200

====
